---- MODULE Spec2Model ----
(***************************************************************************)
(* PyTabular: the import-time bootstrap of the package                     *)
(* (src/pytabular/__init__.py) and the maintenance script that refreshes   *)
(* the vendor DLLs (src/script/update_adomo_linux.py).                     *)
(*                                                                         *)
(* Three specifications share the module:                                  *)
(*   SpecImport  the statements of the package import, one action each;    *)
(*   SpecFind    NuGetPackageManager.find_specific_dll on every bounded    *)
(*               lib/ layout;                                              *)
(*   Spec        main() and AdomoUpdater.update_all_packages acting on the *)
(*               DLL directory and the backup directory.                   *)
(* A file name is a record [stem, ext] so that glob("*.dll") is decided by *)
(* the name.  Results of calls into the vendor runtime, the network and    *)
(* the file system are inputs, drawn with \E where the call is made.       *)
(***************************************************************************)
EXTENDS Naturals, Sequences, FiniteSets

\* ------------------------------------------------------------------ bounds

\* Longest message (in words) of the exception set_runtime may raise.
MaxMsgLen == 3
\* How many files beyond the required DLLs the DLL directory may hold.
MaxExtra == 2
\* How many framework folders besides the searched ones a package may ship.
MaxOtherFw == 1

\* ------------------------------------------------------------- file names

\* Python's None and a value that is not None, as sequences of length 0 and 1.
None == << >>
Some(x) == << x >>

Dll(stem) == [stem |-> stem, ext |-> "dll"]

RuntimeCoreDll == Dll("Microsoft.AnalysisServices.Runtime.Core")
CoreDll == Dll("Microsoft.AnalysisServices.Core")
AmoDll == Dll("Microsoft.AnalysisServices")
TabularDll == Dll("Microsoft.AnalysisServices.Tabular")
AdomdClientDll == Dll("Microsoft.AnalysisServices.AdomdClient")

\* ------------------------------------------------ package import: constants

\* (mutant) Microsoft.AnalysisServices is referenced before the Core it needs.
AddReferenceSeqAmoFirst ==
    << RuntimeCoreDll, AmoDll, CoreDll, TabularDll, AdomdClientDll >>

\* The clr.AddReference calls of the import, in statement order.
AddReferenceSeq ==
    << RuntimeCoreDll, CoreDll, AmoDll, TabularDll, AdomdClientDll >>

\* The "from .x import ..." statements that follow, in statement order.
FacadeSeq ==
    << "pytabular", "logic_utils", "tabular_tracing", "tabular_editor",
       "best_practice_analyzer", "query", "pbi_helper", "document", "tmdl" >>

\* The text the runtime configuration looks for in str(runtime_error).
AlreadyLoaded == << "already", "been", "loaded" >>

Words == {"already", "been", "loaded", "failed"}

RECURSIVE SeqsUpTo(_, _)
SeqsUpTo(S, n) ==
    IF n = 0 THEN { << >> }
    ELSE LET shorter == SeqsUpTo(S, n - 1)
         IN  shorter \cup { Append(s, w) : s \in shorter, w \in S }

\* str(runtime_error) of the exceptions set_runtime may raise.
Messages == SeqsUpTo(Words, MaxMsgLen)

\* needle in text, for Python strings taken as sequences of words.
Contains(text, needle) ==
    \E i \in 1..(Len(text) + 1) :
        /\ i + Len(needle) - 1 <= Len(text)
        /\ SubSeq(text, i, i + Len(needle) - 1) = needle

\* The exceptions an import statement may raise.
ImportErrors ==
    { [type |-> t, msg |-> m] :
        t \in {"ImportError", "RuntimeError"}, m \in {"missing", "broken"} }

VARIABLES
    \* package import
    ipc,            \* the statement the import is at (where it stopped, once raised)
    clr_imported,   \* the module's clr_imported flag
    references,     \* the clr.AddReference calls that returned, in order
    facades,        \* the facade modules imported, in order
    ilog,           \* the runtime configuration's log records, in order
    raised,         \* the exception the import raised to the importer
    thrown          \* the exception the failing statement threw

importVars == << ipc, clr_imported, references, facades, ilog, raised, thrown >>

ImportInit ==
    /\ ipc = "import_pythonnet"
    /\ clr_imported = FALSE
    /\ references = << >>
    /\ facades = << >>
    /\ ilog = << >>
    /\ raised = None
    /\ thrown = None

Log(level, text) == [level |-> level, text |-> text]

\* except Exception as e: logger.error(...); raise
LogAndReraise(e) ==
    /\ ilog' = Append(ilog, Log("error", << "Failed to import pythonnet/CLR", e >>))
    /\ raised' = Some(e)
    /\ UNCHANGED ipc

\* import pythonnet
ImportPythonnet ==
    /\ ipc = "import_pythonnet"
    /\ raised = None
    /\ \/ /\ ipc' = "import_set_runtime"
          /\ UNCHANGED << ilog, raised, thrown >>
       \/ \E e \in ImportErrors :
            /\ thrown' = Some(e)
            /\ LogAndReraise(e)
    /\ UNCHANGED << clr_imported, references, facades >>

\* from pythonnet import set_runtime
ImportSetRuntime ==
    /\ ipc = "import_set_runtime"
    /\ raised = None
    /\ \/ /\ ipc' = "set_runtime"
          /\ UNCHANGED << ilog, raised, thrown >>
       \/ \E e \in ImportErrors :
            /\ thrown' = Some(e)
            /\ LogAndReraise(e)
    /\ UNCHANGED << clr_imported, references, facades >>

\* The except branch of the runtime configuration.
RuntimeErrorLog(msg) ==
    IF Contains(msg, AlreadyLoaded)
    THEN Log("info", << ".NET runtime already configured in this process" >>)
    ELSE Log("warning", << "Runtime configuration failed", msg >>)

\* (mutant) only the "already been loaded" error is swallowed; any other one
\* reaches the outer handler, which logs it and raises it again.
SetRuntimeStrict ==
    /\ ipc = "set_runtime"
    /\ raised = None
    /\ \/ /\ ilog' = Append(ilog, Log("info", << "pythonnet configured for coreclr" >>))
          /\ ipc' = "import_clr"
          /\ UNCHANGED << raised, thrown >>
       \/ \E msg \in Messages :
            IF Contains(msg, AlreadyLoaded)
            THEN /\ ilog' = Append(ilog, RuntimeErrorLog(msg))
                 /\ ipc' = "import_clr"
                 /\ UNCHANGED << raised, thrown >>
            ELSE /\ thrown' = Some([type |-> "RuntimeError", msg |-> msg])
                 /\ LogAndReraise([type |-> "RuntimeError", msg |-> msg])
    /\ UNCHANGED << clr_imported, references, facades >>

\* try: set_runtime("coreclr") except Exception as runtime_error: ...
SetRuntime ==
    /\ ipc = "set_runtime"
    /\ raised = None
    /\ \/ ilog' = Append(ilog, Log("info", << "pythonnet configured for coreclr" >>))
       \/ \E msg \in Messages : ilog' = Append(ilog, RuntimeErrorLog(msg))
    /\ ipc' = "import_clr"
    /\ UNCHANGED << clr_imported, references, facades, raised, thrown >>

\* import clr; clr_imported = True
ImportClr ==
    /\ ipc = "import_clr"
    /\ raised = None
    /\ \/ /\ clr_imported' = TRUE
          /\ ilog' = Append(ilog, Log("info", << "CLR imported successfully" >>))
          /\ ipc' = "add_reference"
          /\ UNCHANGED << raised, thrown >>
       \/ \E e \in ImportErrors :
            /\ thrown' = Some(e)
            /\ LogAndReraise(e)
            /\ UNCHANGED clr_imported
    /\ UNCHANGED << references, facades >>

\* clr.AddReference(os.path.join(dll_dir, <name>)), the next one in order.
\* An exception of the call is not caught: it reaches the importer.
AddReference ==
    /\ ipc = "add_reference"
    /\ raised = None
    /\ LET dll == AddReferenceSeq[Len(references) + 1] IN
       \/ /\ references' = Append(references, dll)
          /\ ipc' = IF Len(references) + 1 = Len(AddReferenceSeq)
                    THEN "import_facade" ELSE "add_reference"
          /\ UNCHANGED << raised, thrown >>
       \/ \E t \in {"FileNotFoundException", "BadImageFormatException"} :
            /\ thrown' = Some([type |-> t, msg |-> dll.stem])
            /\ raised' = thrown'
            /\ UNCHANGED << ipc, references >>
    /\ UNCHANGED << clr_imported, facades, ilog >>

\* from .<module> import ..., the next one in order.
ImportFacade ==
    /\ ipc = "import_facade"
    /\ raised = None
    /\ LET module == FacadeSeq[Len(facades) + 1] IN
       \/ /\ facades' = Append(facades, module)
          /\ ipc' = IF Len(facades) + 1 = Len(FacadeSeq)
                    THEN "imported" ELSE "import_facade"
          /\ UNCHANGED << raised, thrown >>
       \/ \E e \in ImportErrors :
            /\ thrown' = Some(e)
            /\ raised' = Some(e)
            /\ UNCHANGED << ipc, facades >>
    /\ UNCHANGED << clr_imported, references, ilog >>

\* --------------------------------------------------- find_specific_dll

Range(seq) == { seq[i] : i \in 1..Len(seq) }

Min(a, b) == IF a <= b THEN a ELSE b

\* (mutant) the search falls back to a .NET Framework folder.
frameworks_with_fallback ==
    << "net8.0", "net7.0", "net6.0", "netstandard2.0", "net472" >>

\* The framework folders find_specific_dll looks into, in its order.
cross_platform_frameworks == << "net8.0", "net7.0", "net6.0", "netstandard2.0" >>

\* Framework folders a NuGet package may ship that are not searched.
OtherFrameworkNames == << "net472", "net45", "netcoreapp3.0" >>

OtherFrameworks ==
    { OtherFrameworkNames[i] : i \in 1..Min(MaxOtherFw, Len(OtherFrameworkNames)) }

AllFrameworks == Range(cross_platform_frameworks) \cup OtherFrameworks

\* A folder lib/<framework>: absent, or present with some files.
NoDir == [exists |-> FALSE, files |-> {}]
DirStates(names) == {NoDir} \cup { [exists |-> TRUE, files |-> f] : f \in SUBSET names }

\* What an extracted package holds under lib/, as far as the files `names` go.
NoLib == [lib |-> FALSE, dirs |-> [fw \in AllFrameworks |-> NoDir]]
Layouts(names) ==
    {NoLib} \cup { [lib |-> TRUE, dirs |-> d] : d \in [AllFrameworks -> DirStates(names)] }

\* for target_framework in cross_platform_frameworks: ..., from the i-th on.
RECURSIVE SearchFrameworks(_, _, _)
SearchFrameworks(layout, name, i) ==
    IF i > Len(cross_platform_frameworks) THEN None
    ELSE LET target_framework == cross_platform_frameworks[i]
             framework_dir == layout.dirs[target_framework]
         IN  IF framework_dir.exists /\ name \in framework_dir.files
             THEN Some([framework |-> target_framework, name |-> name])
             ELSE SearchFrameworks(layout, name, i + 1)

\* NuGetPackageManager.find_specific_dll: the path of the DLL, or None.
FindSpecificDll(layout, name) ==
    IF ~layout.lib THEN None ELSE SearchFrameworks(layout, name, 1)

\* The layouts phase 4 is run on: no lib/, an empty lib/, or a lib/ with one
\* framework folder, which holds the DLL or does not.  (SpecFind runs the
\* search on every layout.)
PackageLayouts(name) ==
    {NoLib}
    \cup { [lib |-> TRUE, dirs |-> [fw \in AllFrameworks |-> NoDir]] }
    \cup { [lib |-> TRUE,
            dirs |-> [fw \in AllFrameworks |->
                         IF fw = only THEN [exists |-> TRUE, files |-> f] ELSE NoDir]] :
             only \in AllFrameworks, f \in SUBSET {name} }

\* The warnings find_specific_dll logs before it returns None.
FindWarnings(layout, name) ==
    IF ~layout.lib THEN << "No lib directory found" >>
    ELSE IF SearchFrameworks(layout, name, 1) # None THEN << >>
    ELSE << "not found in cross-platform frameworks",
            { fw \in AllFrameworks : layout.dirs[fw].exists } >>

\* The DLL names the search is run for in SpecFind.
FindNames == {AmoDll, CoreDll}

VARIABLES
    fpc,            \* "call" before find_specific_dll runs, "returned" after
    extract_dir,    \* the lib/ layout of the extracted package
    dll_name,       \* the requested DLL
    dll_file,       \* what find_specific_dll returned
    find_log        \* the warnings it logged

findVars == << fpc, extract_dir, dll_name, dll_file, find_log >>

FindInit ==
    /\ fpc = "call"
    /\ extract_dir \in Layouts(FindNames)
    /\ dll_name \in FindNames
    /\ dll_file = None
    /\ find_log = << >>

FindCall ==
    /\ fpc = "call"
    /\ dll_file' = FindSpecificDll(extract_dir, dll_name)
    /\ find_log' = FindWarnings(extract_dir, dll_name)
    /\ fpc' = "returned"
    /\ UNCHANGED << extract_dir, dll_name >>

\* The import has not started / no search is running: the frame of the
\* specifications that are about something else.
ImportIdle ==
    /\ ipc = "not_imported"
    /\ clr_imported = FALSE
    /\ references = << >>
    /\ facades = << >>
    /\ ilog = << >>
    /\ raised = None
    /\ thrown = None

FindIdle ==
    /\ fpc = "idle"
    /\ extract_dir = NoLib
    /\ dll_name = AmoDll
    /\ dll_file = None
    /\ find_log = << >>

\* ------------------------------------------------ the maintenance script

\* (mutant) the Tabular DLL is left out of the additional DLLs.
NUGET_PACKAGES_NoTabular ==
    << [name |-> "Microsoft.AnalysisServices.AdomdClient",
        dll_name |-> AdomdClientDll,
        additional_dlls |-> << >>],
       [name |-> "Microsoft.AnalysisServices",
        dll_name |-> AmoDll,
        additional_dlls |-> << CoreDll, RuntimeCoreDll >>] >>

\* NUGET_PACKAGES, in the dict's order; "additional_dlls" is the value
\* pkg.get("additional_dlls", []) gives.
NUGET_PACKAGES ==
    << [name |-> "Microsoft.AnalysisServices.AdomdClient",
        dll_name |-> AdomdClientDll,
        additional_dlls |-> << >>],
       [name |-> "Microsoft.AnalysisServices",
        dll_name |-> AmoDll,
        additional_dlls |-> << CoreDll, RuntimeCoreDll, TabularDll >>] >>

\* REQUIRED_DLLS: the main and the additional DLLs of every package.
REQUIRED_DLLS ==
    UNION { {pkg.dll_name} \cup Range(pkg.additional_dlls) : pkg \in Range(NUGET_PACKAGES) }

\* all_dlls = [package_info['dll_name']] + package_info['additional_dlls']
AllDlls(package_info) == << package_info.dll_name >> \o package_info.additional_dlls

\* Files other than the required DLLs that the DLL directory may hold.
ExtraNames ==
    << Dll("Microsoft.AnalysisServices.SPClient.Interfaces"),
       [stem |-> "README", ext |-> "txt"],
       Dll("Microsoft.Identity.Client") >>

ExtraFiles == { ExtraNames[i] : i \in 1..Min(MaxExtra, Len(ExtraNames)) }

FileNames == REQUIRED_DLLS \cup ExtraFiles

\* What a file holds: where it came from and which version.
OnDisk == [package |-> "on disk", version |-> "old"]
StaleBackup == [package |-> "on disk", version |-> "older"]
Installed(package_name, pkg_version) == [package |-> package_name, version |-> pkg_version]

\* A directory: missing, or present with files (name -> content).
NoDirectory == [exists |-> FALSE, files |-> << >>]
Directory(names, content) == [exists |-> TRUE, files |-> [n \in names |-> content]]

\* shutil.copy2(src, dir / name): the file is created or overwritten.
WithFile(dir, name, content) ==
    [exists |-> dir.exists,
     files |-> [n \in DOMAIN dir.files \cup {name} |->
                   IF n = name THEN content ELSE dir.files[n]]]

\* Path.unlink()
WithoutFile(dir, name) ==
    [exists |-> dir.exists, files |-> [n \in DOMAIN dir.files \ {name} |-> dir.files[n]]]

\* Path.mkdir(exist_ok=True)
Mkdir(dir) == [exists |-> TRUE, files |-> dir.files]

\* dir.glob("*.dll")
Glob(dir) == { n \in DOMAIN dir.files : n.ext = "dll" }

\* The versions the command line may name and the search API may report.
GivenVersions == {"19.84.1"}
LatestVersions == {"19.94.1"}

\* `not pkg_version`, for version = None, "" or a version.
Falsy(v) == v = None \/ v = Some("")

\* The logger.error records of AdomoUpdater.verify_dll_directory.
VerifyErrors(dir) ==
    IF ~dir.exists THEN << << "DLL directory does not exist" >> >>
    ELSE IF REQUIRED_DLLS \ Glob(dir) # {}
    THEN << << "Missing required DLLs", REQUIRED_DLLS \ Glob(dir) >> >>
    ELSE << >>

\* AdomoUpdater.verify_dll_directory
VerifyDllDirectory(dir) ==
    IF ~dir.exists THEN FALSE
    ELSE LET current_dlls == Glob(dir)
             missing_dlls == REQUIRED_DLLS \ current_dlls
         IN  IF missing_dlls # {} THEN FALSE
             ELSE IF current_dlls = REQUIRED_DLLS THEN TRUE
             ELSE Cardinality(missing_dlls) = 0

VARIABLES
    upc,                  \* the statement main / update_all_packages is at
    dry_run,              \* AdomoUpdater.dry_run (--dry-run)
    version,              \* args.version (--version)
    dll_dir,              \* DLL_DIR
    backup_dir,           \* BACKUP_DIR
    temp_dir,             \* whether TEMP_DIR exists
    pkg_version,          \* update_all_packages' pkg_version
    downloaded_packages,  \* update_all_packages' downloaded_packages, in order
    todo,                 \* the files the running glob loop has yet to visit
    copied_dlls,          \* update_all_packages' copied_dlls
    updated_packages,     \* AdomoUpdater.updated_packages, in order
    success,              \* what update_all_packages returned
    final_verification,   \* main's final_verification
    errors,               \* the logger.error records of the run
    stdout,               \* what main printed
    exit_status           \* the process's exit status

argVars == << dry_run, version >>
fsVars == << dll_dir, backup_dir >>
loopVars == << pkg_version, downloaded_packages, todo, copied_dlls, updated_packages >>
outVars == << success, final_verification, errors, stdout, exit_status, temp_dir >>
updVars == << upc, argVars, fsVars, loopVars, outVars >>

\* The DLL directory before the run: missing, or holding any of the files.
InitialDllDirs == {NoDirectory} \cup { Directory(S, OnDisk) : S \in SUBSET FileNames }

\* The backup directory before the run: missing, empty, or left by an earlier run.
InitialBackupDirs == {NoDirectory} \cup { Directory(S, StaleBackup) : S \in SUBSET {CoreDll} }

UpdInit ==
    /\ upc = "check_prerequisites"
    /\ dry_run \in BOOLEAN
    /\ version \in {None, Some("")} \cup { Some(v) : v \in GivenVersions }
    /\ dll_dir \in InitialDllDirs
    /\ backup_dir \in InitialBackupDirs
    /\ temp_dir = TRUE
    /\ pkg_version = None
    /\ downloaded_packages = << >>
    /\ todo = {}
    /\ copied_dlls = << >>
    /\ updated_packages = << >>
    /\ success = None
    /\ final_verification = None
    /\ errors = << >>
    /\ stdout = << >>
    /\ exit_status = None

\* check_prerequisites(); sys.exit(1) when it fails (before the try block).
CheckPrerequisites ==
    /\ upc = "check_prerequisites"
    /\ \/ /\ upc' = "verify_current"
          /\ UNCHANGED << errors, exit_status >>
       \/ \E why \in {"pytabular directory not found", "No internet connection"} :
            /\ errors' = Append(errors, << why >>)
            /\ exit_status' = Some(1)
            /\ upc' = "exited"
    /\ UNCHANGED << argVars, fsVars, loopVars, success, final_verification, stdout, temp_dir >>

\* updater.verify_dll_directory() before the update; its result is not used.
VerifyCurrent ==
    /\ upc = "verify_current"
    /\ errors' = errors \o VerifyErrors(dll_dir)
    /\ upc' = "get_version"
    /\ UNCHANGED << argVars, fsVars, loopVars, success, final_verification, stdout,
                    exit_status, temp_dir >>

\* (mutant) logger.error(message); return
ReturnNothing(message) ==
    /\ errors' = Append(errors, message)
    /\ success' = None
    /\ upc' = "returned"

\* logger.error(message); return False
ReturnFalse(message) ==
    /\ errors' = Append(errors, message)
    /\ success' = Some(FALSE)
    /\ upc' = "returned"

\* An exception leaves update_all_packages: main's except Exception logs and
\* prints it, sys.exit(1), and the finally block cleans up.
UnexpectedError(e) ==
    /\ errors' = Append(errors, << "Unexpected error", e >>)
    /\ stdout' = Append(stdout, << "Unexpected error", e >>)
    /\ exit_status' = Some(1)
    /\ temp_dir' = FALSE
    /\ upc' = "exited"

\* The package the phase 1 loop is at.
PackageName == NUGET_PACKAGES[Len(downloaded_packages) + 1].name

\* What get_latest_version returns: the version the search API reports, or None
\* (no version listed, or a requests.RequestException, which it catches).
GetLatestVersion == {None} \cup { Some(v) : v \in LatestVersions }

\* pkg_version = version; if not pkg_version: get_latest_version(...).
\* get_latest_version catches requests.RequestException only: an answer of the
\* search API that is not the JSON it expects raises out of update_all_packages.
GetVersion ==
    /\ upc = "get_version"
    /\ IF ~Falsy(version)
       THEN /\ pkg_version' = version
            /\ upc' = "download"
            /\ UNCHANGED outVars
       ELSE \/ \E latest \in GetLatestVersion :
                 IF latest = None
                 THEN /\ ReturnFalse(<< "Could not determine version", PackageName >>)
                      /\ pkg_version' = latest
                      /\ UNCHANGED << final_verification, stdout, exit_status, temp_dir >>
                 ELSE /\ pkg_version' = latest
                      /\ upc' = "download"
                      /\ UNCHANGED outVars
            \/ /\ UnexpectedError("KeyError")
               /\ pkg_version' = None
               /\ UNCHANGED << success, final_verification >>
    /\ UNCHANGED << argVars, fsVars, downloaded_packages, todo, copied_dlls,
                    updated_packages >>

\* package_file = download_package(package_name, pkg_version)
DownloadPackage ==
    /\ upc = "download"
    /\ \/ /\ upc' = "extract"
          /\ UNCHANGED << errors, success >>
       \/ ReturnFalse(<< "Failed to download", PackageName >>)
    /\ UNCHANGED << argVars, fsVars, loopVars, final_verification, stdout,
                    exit_status, temp_dir >>

\* (mutant) the backup and the removal start after the first package.
AfterExtractEarly(n) == "backup"

\* Where phase 1 goes once n packages are downloaded and extracted.
AfterExtract(n) == IF n = Len(NUGET_PACKAGES) THEN "backup" ELSE "get_version"

\* extract_dir = extract_package(package_file); downloaded_packages[...] = {...}
ExtractPackage ==
    /\ upc = "extract"
    /\ \/ /\ downloaded_packages' =
                Append(downloaded_packages,
                       [name |-> PackageName,
                        version |-> pkg_version[1],
                        dll_name |-> NUGET_PACKAGES[Len(downloaded_packages) + 1].dll_name,
                        additional_dlls |->
                            NUGET_PACKAGES[Len(downloaded_packages) + 1].additional_dlls])
          /\ upc' = AfterExtract(Len(downloaded_packages'))
          /\ UNCHANGED << errors, success >>
       \/ /\ ReturnFalse(<< "Failed to extract", PackageName >>)
          /\ UNCHANGED downloaded_packages
    /\ UNCHANGED << argVars, fsVars, pkg_version, todo, copied_dlls, updated_packages,
                    final_verification, stdout, exit_status, temp_dir >>

\* (mutant) backup_existing_dlls without its dry-run return.
BackupExistingDllsNoDryRun ==
    /\ upc = "backup"
    /\ IF ~dll_dir.exists
       THEN /\ upc' = "remove_old"
            /\ UNCHANGED << backup_dir, todo >>
       ELSE /\ backup_dir' = Mkdir(backup_dir)
            /\ todo' = Glob(dll_dir)
            /\ upc' = IF Glob(dll_dir) = {} THEN "remove_old" ELSE "backup_copy"
    /\ UNCHANGED << argVars, dll_dir, pkg_version, downloaded_packages, copied_dlls,
                    updated_packages, outVars >>

\* backup_existing_dlls, up to the glob of its loop.
BackupExistingDlls ==
    /\ upc = "backup"
    /\ IF ~dll_dir.exists \/ dry_run
       THEN /\ upc' = "remove_old"
            /\ UNCHANGED << backup_dir, todo, outVars >>
       ELSE \/ /\ backup_dir' = Mkdir(backup_dir)
               /\ todo' = Glob(dll_dir)
               /\ upc' = IF Glob(dll_dir) = {} THEN "remove_old" ELSE "backup_copy"
               /\ UNCHANGED outVars
            \/ /\ ~backup_dir.exists
               /\ UnexpectedError("mkdir")
               /\ UNCHANGED << backup_dir, todo, success, final_verification >>
    /\ UNCHANGED << argVars, dll_dir, pkg_version, downloaded_packages, copied_dlls,
                    updated_packages >>

\* (mutant) a file the backup directory already holds is not copied again.
BackupCopyKeepExisting ==
    /\ upc = "backup_copy"
    /\ \E old_dll \in todo :
         /\ backup_dir' = IF old_dll \in DOMAIN backup_dir.files THEN backup_dir
                          ELSE WithFile(backup_dir, old_dll, dll_dir.files[old_dll])
         /\ todo' = todo \ {old_dll}
         /\ upc' = IF todo' = {} THEN "remove_old" ELSE "backup_copy"
         /\ UNCHANGED outVars
    /\ UNCHANGED << argVars, dll_dir, pkg_version, downloaded_packages, copied_dlls,
                    updated_packages >>

\* One pass of the backup loop: shutil.copy2(dll_file, backup_file).
BackupCopy ==
    /\ upc = "backup_copy"
    /\ \E old_dll \in todo :
         \/ /\ backup_dir' = WithFile(backup_dir, old_dll, dll_dir.files[old_dll])
            /\ todo' = todo \ {old_dll}
            /\ upc' = IF todo' = {} THEN "remove_old" ELSE "backup_copy"
            /\ UNCHANGED outVars
         \/ /\ UnexpectedError("copy2")
            /\ UNCHANGED << backup_dir, todo, success, final_verification >>
    /\ UNCHANGED << argVars, dll_dir, pkg_version, downloaded_packages, copied_dlls,
                    updated_packages >>

\* (mutant) phase 3 removes only the DLLs that are about to be replaced.
RemoveRequiredOnly ==
    /\ upc = "remove_old"
    /\ todo' = IF dll_dir.exists THEN Glob(dll_dir) \cap REQUIRED_DLLS ELSE {}
    /\ upc' = IF todo' = {} THEN "install" ELSE "unlink"
    /\ UNCHANGED << argVars, fsVars, pkg_version, downloaded_packages, copied_dlls,
                    updated_packages, outVars >>

\* if DLL_DIR.exists(): for dll_file in DLL_DIR.glob("*.dll"): the glob.
RemoveOldDlls ==
    /\ upc = "remove_old"
    /\ todo' = IF dll_dir.exists THEN Glob(dll_dir) ELSE {}
    /\ upc' = IF todo' = {} THEN "install" ELSE "unlink"
    /\ UNCHANGED << argVars, fsVars, pkg_version, downloaded_packages, copied_dlls,
                    updated_packages, outVars >>

\* One pass of the phase 3 loop: dll_file.unlink(), or a log line in a dry run.
Unlink ==
    /\ upc = "unlink"
    /\ \E old_dll \in todo :
         \/ /\ dll_dir' = IF dry_run THEN dll_dir ELSE WithoutFile(dll_dir, old_dll)
            /\ todo' = todo \ {old_dll}
            /\ upc' = IF todo' = {} THEN "install" ELSE "unlink"
            /\ UNCHANGED outVars
         \/ /\ ~dry_run
            /\ UnexpectedError("unlink")
            /\ UNCHANGED << dll_dir, todo, success, final_verification >>
    /\ UNCHANGED << argVars, backup_dir, pkg_version, downloaded_packages, copied_dlls,
                    updated_packages >>

\* The package the phase 4 loop is at.
PackageInfo == downloaded_packages[Len(updated_packages) + 1]

\* copied_dlls.append(dll_name), and after the package's last DLL
\* self.updated_packages[package_name] = {...}; after the last package, return True.
Copied(name) ==
    LET copied == Append(copied_dlls, name) IN
    IF Len(copied) < Len(AllDlls(PackageInfo))
    THEN /\ copied_dlls' = copied
         /\ UNCHANGED << updated_packages, success, upc >>
    ELSE /\ copied_dlls' = << >>
         /\ updated_packages' =
               Append(updated_packages,
                      [name |-> PackageInfo.name,
                       version |-> PackageInfo.version,
                       dll_name |-> PackageInfo.dll_name,
                       additional_dlls |-> PackageInfo.additional_dlls,
                       copied_dlls |-> copied])
         /\ IF Len(updated_packages') = Len(downloaded_packages)
            THEN success' = Some(TRUE) /\ upc' = "returned"
            ELSE UNCHANGED << success, upc >>

\* One pass of the phase 4 inner loop.  What lib/ of the extracted package holds
\* is read here for the first time, so it is drawn here.
InstallDll ==
    /\ upc = "install"
    /\ LET name == AllDlls(PackageInfo)[Len(copied_dlls) + 1] IN
       \E layout \in PackageLayouts(name) :
         LET found == FindSpecificDll(layout, name) IN
         IF found = None
         THEN /\ ReturnFalse(<< "Required DLL not found", name.stem >>)
              /\ UNCHANGED << dll_dir, copied_dlls, updated_packages >>
         ELSE IF dry_run
         THEN /\ Copied(name)
              /\ UNCHANGED << dll_dir, errors >>
         ELSE \/ /\ dll_dir' = WithFile(Mkdir(dll_dir), found[1].name,
                                        Installed(PackageInfo.name, PackageInfo.version))
                 /\ Copied(name)
                 /\ UNCHANGED errors
              \/ \E made \in BOOLEAN :
                   /\ dll_dir' = IF made THEN Mkdir(dll_dir) ELSE dll_dir
                   /\ ReturnFalse(<< "Error installing", name.stem >>)
                   /\ UNCHANGED << copied_dlls, updated_packages >>
    /\ UNCHANGED << argVars, backup_dir, pkg_version, downloaded_packages, todo,
                    final_verification, stdout, exit_status, temp_dir >>

\* generate_report(), as far as the run decides it: the dry-run banner and the
\* number of packages processed (file sizes are not modelled).
GenerateReport ==
    << "report", dry_run, Len(updated_packages) >>

\* main after update_all_packages returned: the final verification and the report.
VerifyAndReport ==
    /\ upc = "returned"
    /\ final_verification' =
          IF success = Some(TRUE) /\ ~dry_run
          THEN Some(VerifyDllDirectory(dll_dir)) ELSE final_verification
    /\ errors' = IF success = Some(TRUE) /\ ~dry_run
                  THEN errors \o VerifyErrors(dll_dir) ELSE errors
    /\ stdout' = Append(stdout, GenerateReport)
    /\ upc' = "report_printed"
    /\ UNCHANGED << argVars, fsVars, loopVars, success, exit_status, temp_dir >>

\* if success: ... else: ... sys.exit(1); finally: updater.cleanup()
Exit ==
    /\ upc = "report_printed"
    /\ IF success = Some(TRUE)
       THEN /\ stdout' = Append(stdout, << "Update completed successfully!" >>)
            /\ exit_status' = Some(0)
            /\ UNCHANGED errors
       ELSE /\ errors' = Append(errors, << "ADOMO library update failed!" >>)
            /\ stdout' = Append(stdout, << "Update failed!" >>)
            /\ exit_status' = Some(1)
    /\ temp_dir' = FALSE
    /\ upc' = "exited"
    /\ UNCHANGED << argVars, fsVars, loopVars, success, final_verification >>

UpdIdle ==
    /\ upc = "not started"
    /\ dry_run = FALSE
    /\ version = None
    /\ dll_dir = NoDirectory
    /\ backup_dir = NoDirectory
    /\ temp_dir = FALSE
    /\ pkg_version = None
    /\ downloaded_packages = << >>
    /\ todo = {}
    /\ copied_dlls = << >>
    /\ updated_packages = << >>
    /\ success = None
    /\ final_verification = None
    /\ errors = << >>
    /\ stdout = << >>
    /\ exit_status = None

\* ------------------------------------------------------- specifications

vars == << importVars, findVars, updVars >>

InitImport == ImportInit /\ FindIdle /\ UpdIdle

NextImport ==
    \/ ImportPythonnet /\ UNCHANGED << findVars, updVars >>
    \/ ImportSetRuntime /\ UNCHANGED << findVars, updVars >>
    \/ SetRuntime /\ UNCHANGED << findVars, updVars >>
    \/ ImportClr /\ UNCHANGED << findVars, updVars >>
    \/ AddReference /\ UNCHANGED << findVars, updVars >>
    \/ ImportFacade /\ UNCHANGED << findVars, updVars >>

SpecImport == InitImport /\ [][NextImport]_vars

InitFind == FindInit /\ ImportIdle /\ UpdIdle

NextFind == FindCall /\ UNCHANGED << importVars, updVars >>

SpecFind == InitFind /\ [][NextFind]_vars

Init == UpdInit /\ ImportIdle /\ FindIdle

Next ==
    \/ CheckPrerequisites /\ UNCHANGED << importVars, findVars >>
    \/ VerifyCurrent /\ UNCHANGED << importVars, findVars >>
    \/ GetVersion /\ UNCHANGED << importVars, findVars >>
    \/ DownloadPackage /\ UNCHANGED << importVars, findVars >>
    \/ ExtractPackage /\ UNCHANGED << importVars, findVars >>
    \/ BackupExistingDlls /\ UNCHANGED << importVars, findVars >>
    \/ BackupCopy /\ UNCHANGED << importVars, findVars >>
    \/ RemoveOldDlls /\ UNCHANGED << importVars, findVars >>
    \/ Unlink /\ UNCHANGED << importVars, findVars >>
    \/ InstallDll /\ UNCHANGED << importVars, findVars >>
    \/ VerifyAndReport /\ UNCHANGED << importVars, findVars >>
    \/ Exit /\ UNCHANGED << importVars, findVars >>

Spec == Init /\ [][Next]_vars

\* ----------------------------------------------------------------- claims

\* Whether the log `records` holds a record whose first field is in `texts`.
Logged(records, texts) == \E i \in 1..Len(records) : records[i][1] \in texts

\* The order the bootstrap is required to follow.
C1_Order ==
    << Dll("Microsoft.AnalysisServices.Runtime.Core"),
       Dll("Microsoft.AnalysisServices.Core"),
       Dll("Microsoft.AnalysisServices"),
       Dll("Microsoft.AnalysisServices.Tabular"),
       Dll("Microsoft.AnalysisServices.AdomdClient") >>

C1_State ==
    /\ Len(references) <= Len(C1_Order)
    /\ \A i \in 1..Len(references) : references[i] = C1_Order[i]
    /\ (facades # << >> \/ ipc \in {"import_facade", "imported"}) => references = C1_Order
    /\ (ipc = "add_reference" /\ thrown # None) =>
          /\ thrown[1].msg = C1_Order[Len(references) + 1].stem
          /\ raised = thrown
          /\ facades = << >>

\* C1: the import adds the five vendor references in the fixed order Runtime.Core,
\* Core, AMO, Tabular, AdomdClient, each only after every earlier one succeeded;
\* the facade modules are imported only after all five succeeded; once an
\* AddReference failed, no later reference and no facade import happens.
C1_BootstrapOrder ==
    /\ []C1_State
    /\ [][raised # None => (references' = references /\ facades' = facades)]_vars

\* C1 witness: the fourth reference failed after three succeeded.
C1_Witness ==
    /\ ipc = "add_reference"
    /\ raised # None
    /\ Len(references) = 3

\* The searched folders, in the priority the search is required to follow.
C2_Priority == << "net8.0", "net7.0", "net6.0", "netstandard2.0" >>

C2_Holders ==
    { i \in 1..Len(C2_Priority) :
        /\ extract_dir.lib
        /\ extract_dir.dirs[C2_Priority[i]].exists
        /\ dll_name \in extract_dir.dirs[C2_Priority[i]].files }

\* C2: find_specific_dll returns the DLL's path in the first of net8.0, net7.0,
\* net6.0, netstandard2.0 that holds the DLL, and None when lib/ is missing or
\* none of the four holds it, whatever other framework folders hold.
C2_FindSpecificDll ==
    fpc = "returned" =>
        IF C2_Holders = {} THEN dll_file = None
        ELSE \E i \in C2_Holders :
                /\ \A j \in C2_Holders : i <= j
                /\ dll_file = Some([framework |-> C2_Priority[i], name |-> dll_name])

\* C2 witness: the DLL is only under a .NET Framework folder, and None came back.
C2_Witness ==
    /\ fpc = "returned"
    /\ dll_file = None
    /\ extract_dir.lib
    /\ dll_name \in extract_dir.dirs["net472"].files
    /\ extract_dir.dirs["net8.0"].exists

\* C3: in a dry run no step changes the DLL directory or the backup directory.
C3_DryRunFrame == [][dry_run => UNCHANGED << dll_dir, backup_dir >>]_vars

\* C3 witness: a dry run that went through all four phases and returned True,
\* over a DLL directory that held DLLs, with no backup directory.
C3_Witness ==
    /\ dry_run
    /\ upc = "exited"
    /\ success = Some(TRUE)
    /\ Glob(dll_dir) # {}
    /\ ~backup_dir.exists

C4_Handled ==
    { "Could not determine version", "Failed to download", "Failed to extract",
      "Required DLL not found" }

\* C4: when no version can be determined, a download or an extraction fails, or a
\* required DLL is not found, update_all_packages returns False; after it returned
\* False, main goes on to print the failure message and exits with status 1.
C4_HandledFailures ==
    /\ Logged(errors, C4_Handled) => success = Some(FALSE)
    /\ success = Some(FALSE) =>
          /\ upc \in {"returned", "report_printed", "exited"}
          /\ upc # "exited" => ENABLED (VerifyAndReport \/ Exit)
          /\ upc = "exited" =>
                /\ exit_status = Some(1)
                /\ stdout[Len(stdout)] = << "Update failed!" >>

\* C4 witness: a required DLL was not found, and the process exited.
C4_Witness ==
    /\ Logged(errors, {"Required DLL not found"})
    /\ upc = "exited"
    /\ exit_status = Some(1)

\* C5: the DLLs the script requires are exactly the DLLs the import references:
\* every reference the import adds is a required DLL, and a completed import has
\* referenced all of them.
C5_SameDlls ==
    /\ Range(references) \subseteq REQUIRED_DLLS
    /\ ipc \in {"import_facade", "imported"} => Range(references) = REQUIRED_DLLS
    /\ thrown # None /\ ipc = "add_reference" =>
          \E d \in REQUIRED_DLLS : d.stem = thrown[1].msg

\* C5 witness: the import completed.
C5_Witness ==
    /\ ipc = "imported"
    /\ Len(facades) = Len(FacadeSeq)
    /\ raised = None

\* C6: once update_all_packages returned True outside a dry run, the *.dll files
\* of the DLL directory are exactly REQUIRED_DLLS and updated_packages has, for
\* every package of NUGET_PACKAGES, an entry whose copied_dlls are the package's
\* DLLs; main's final verification succeeds.
C6_ExactlyRequired ==
    (success = Some(TRUE) /\ ~dry_run) =>
        /\ dll_dir.exists
        /\ Glob(dll_dir) = REQUIRED_DLLS
        /\ Len(updated_packages) = Len(NUGET_PACKAGES)
        /\ \A i \in 1..Len(NUGET_PACKAGES) :
              /\ updated_packages[i].name = NUGET_PACKAGES[i].name
              /\ Range(updated_packages[i].copied_dlls) =
                    {NUGET_PACKAGES[i].dll_name} \cup Range(NUGET_PACKAGES[i].additional_dlls)
        /\ final_verification \in {None, Some(TRUE)}

\* C6 witness: a successful update of a directory that held a DLL which is not
\* required (it is in the backup now) and a file that is no DLL.
C6_Witness ==
    /\ success = Some(TRUE)
    /\ ~dry_run
    /\ upc = "exited"
    /\ final_verification = Some(TRUE)
    /\ ExtraNames[1] \in DOMAIN backup_dir.files
    /\ ExtraNames[2] \in DOMAIN dll_dir.files

C7_State ==
    (thrown # None /\ ipc \in {"import_pythonnet", "import_set_runtime", "import_clr"}) =>
        /\ raised = thrown
        /\ references = << >>
        /\ ilog # << >>
        /\ ilog[Len(ilog)] = Log("error", << "Failed to import pythonnet/CLR", thrown[1] >>)

\* C7: whatever set_runtime raises, the import goes on to import clr; an exception
\* of importing pythonnet or clr is logged and raised unchanged, with no reference
\* added.
C7_RuntimeConfiguration ==
    /\ []C7_State
    /\ [][ipc = "set_runtime" => (ipc' = "import_clr" /\ raised' = None)]_vars

\* C7 witness: set_runtime failed with another error than "already been loaded",
\* clr was imported all the same, and that import failed.
C7_Witness ==
    /\ ipc = "import_clr"
    /\ raised # None
    /\ \E i \in 1..Len(ilog) : ilog[i].level = "warning"

C8_Phase1Failed ==
    Logged(errors, {"Could not determine version", "Failed to download", "Failed to extract"})

\* C8: no step changes the DLL directory or the backup directory before every
\* package is resolved, downloaded and extracted; a failure of one of these makes
\* the call return False, and neither directory has changed or changes after.
C8_DownloadFirst ==
    /\ [](C8_Phase1Failed =>
            (success = Some(FALSE) /\ Len(downloaded_packages) < Len(NUGET_PACKAGES)))
    /\ [][(Len(downloaded_packages) < Len(NUGET_PACKAGES) \/ C8_Phase1Failed')
            => UNCHANGED << dll_dir, backup_dir >>]_vars

\* C8 witness: outside a dry run the second package failed after the first was
\* extracted; the DLL directory still holds its DLLs and there is no backup.
C8_Witness ==
    /\ C8_Phase1Failed
    /\ ~dry_run
    /\ upc = "exited"
    /\ Len(downloaded_packages) = 1
    /\ Glob(dll_dir) # {}
    /\ ~backup_dir.exists

\* C9: whenever a step removes a file from the DLL directory, the backup directory
\* holds a file of that name with the content the removed file had.
C9_BackupBeforeRemove ==
    [][\A n \in DOMAIN dll_dir.files \ DOMAIN dll_dir'.files :
          /\ backup_dir.exists
          /\ n \in DOMAIN backup_dir.files
          /\ backup_dir.files[n] = dll_dir.files[n]]_vars

\* C9 witness: phase 3 has removed Microsoft.AnalysisServices.Core.dll, which
\* phase 2 of this run copied to the backup directory, and has more to remove.
C9_Witness ==
    /\ ~dry_run
    /\ upc = "unlink"
    /\ CoreDll \notin DOMAIN dll_dir.files
    /\ CoreDll \in DOMAIN backup_dir.files
    /\ backup_dir.files[CoreDll] = OnDisk
    /\ todo # {}

====
